---- MODULE Spec2Model ----
(***************************************************************************)
(* Model of ChessAnalyzer (src/chess.com_analyzer/analyzer.py): the        *)
(* credential bootstrap (__generate_account, __fetch_token), the analysis  *)
(* session over one websocket (__analyze_game_async) and its caller        *)
(* analyze_game, for two analyze_game calls running side by side.          *)
(*                                                                         *)
(* Every call owns its Python locals (pgn, gameID, token, websocket); the  *)
(* third-party services are the environment: each HTTP request succeeds or *)
(* raises, the token endpoint issues a new token per exchange, and the     *)
(* analysis service delivers frames of its choice on an open connection.   *)
(***************************************************************************)
EXTENDS Integers, Sequences, FiniteSets, TLC

\* ------------------------------------------------------------- bounds
\* Games in a month's upstream listing.
MaxGames == 3
\* Decimals of an accuracy figure in the payload.
MaxFrac == 3
\* Frames the analysis service delivers on one connection.
MaxFrames == 4
\* Length of the random username (k=15 in the code), scaled down.
UserLen == 2
MaxPath == 3
\* years the clock runs through
MaxYear == 2

\* The two analyze_game calls (threads of one host process).
Calls == {"A", "B"}

VARIABLES
    pc,       \* pc[c]: the statement call c is at
    sel,      \* sel[c]: the game record selected by analyze_game (lines 98-103)
    token,    \* token[c]: the local `token` of __analyze_game_async (line 119)
    echo,     \* echo[c]: whether the registration response named the user (line 44)
    conn,     \* conn[c]: the websocket of call c: "none", "open", "closed"
    outbox,   \* outbox[c]: the messages call c sent on its websocket
    inbox,    \* inbox[c]: the frames websocket.recv() has handed to call c, in order
    queued,   \* queued[c]: frames delivered on c's websocket that recv() has not yet
              \*   handed over (their text is the service's choice, fixed when read)
    result,   \* result[c]: the value __analyze_game_async returned
    error,    \* error[c]: the exception that ended call c, or "none"
    trace,    \* trace[c]: the I/O operations call c attempted, in order, with their outcome
    issued,   \* tokens the token-exchange endpoint has issued, with the call they went to
    fn,       \* one application of a function of the class to an input: the
              \*   function, its argument, whether it has run, what it gave
    now,      \* the calendar month it is: [y, m]
    defaults, \* the default year and month bound to the two public methods (lines 62, 82)
    query     \* the last month query made with year and month omitted

\* the variables outside the analyze_game calls
aux == <<fn, now, defaults, query>>

vars == <<pc, sel, token, echo, conn, outbox, inbox, queued, result, error, trace, issued, aux>>

\* ------------------------------------------------------------- values
NoToken == <<"unset", 0>>
\* line 44: the string __generate_account returns on an echo mismatch
ErrorString == <<"ERROR GENERATING ACCOUNT.", 0>>
\* a token issued by the token-exchange endpoint (line 59), the n-th one
IssuedToken(n) == <<"token", n>>

NoGame == [pgn |-> "none", url |-> <<>>, white |-> "none", black |-> "none"]
NoFrame == [json |-> "none", action |-> "none", data |-> "none", on |-> "none", n |-> 0]

\* The month's games as the upstream API delivers them (line 98).
Listing ==
    << [pgn |-> "pgn0", url |-> <<"/", "l", "/", "1", "2">>, white |-> "w0", black |-> "b0"],
       [pgn |-> "pgn1", url |-> <<"/", "l", "/", "3", "4">>, white |-> "w1", black |-> "b1"] >>

Digits == {"0", "1", "2", "3", "4", "5", "6", "7", "8", "9"}

\* line 100: re.search("[0-9].*", url).group(0): from the first digit to the end
GameId(url) ==
    LET hits == {i \in 1..Len(url) : url[i] \in Digits}
    IN  IF hits = {} THEN <<>>
        ELSE SubSeq(url, CHOOSE i \in hits : \A j \in hits : i <= j, Len(url))

\* Python list indexing player_games[game_number] (line 99): 0 when out of range,
\* else the 1-based position selected (negative indices count from the end).
PyIndex(len, i) ==
    IF 0 <= i /\ i < len THEN i + 1
    ELSE IF i < 0 /\ -len <= i THEN len + i + 1
    ELSE 0

IndexInputs == (-(Len(Listing) + 1))..Len(Listing)

\* ------------------------------------------------------------- strings
Alphabet == {"a", "b"}
SeqsOfLen(n) == [1..n -> Alphabet]
\* line 32: random.choices(..., k=15)
Usernames == SeqsOfLen(UserLen)
\* usernames a registration response may carry
ResponseNames == UNION {SeqsOfLen(n) : n \in 0..(UserLen + 1)}

\* Python `sub in s` on strings: sub occurs in s as a contiguous run
Contains(sub, s) ==
    \E i \in 0..(Len(s) - Len(sub)) : SubSeq(s, i + 1, i + Len(sub)) = sub

\* line 44: `user not in response.json()["user"]["username"]` is False
EchoAccepted(user, name) == Contains(user, name)

\* what the test of line 44 makes of the response
EchoKind(user, name) == IF EchoAccepted(user, name) THEN "echoed" ELSE "mismatch"

\* ------------------------------------------------------------- frames
\* A text frame is invalid JSON, a JSON value that is no object, or an object
\* with or without an "action" member; a completion payload has every field
\* __get_tallies reads ("full") or lacks one ("partial").
FrameShapes ==
    { [json |-> "invalid", action |-> "absent", data |-> "none"],
      [json |-> "array", action |-> "absent", data |-> "none"],
      [json |-> "object", action |-> "absent", data |-> "none"],
      [json |-> "object", action |-> "progress", data |-> "none"],
      [json |-> "object", action |-> "analyzeGame", data |-> "full"],
      [json |-> "object", action |-> "analyzeGame", data |-> "partial"] }

MkFrame(s, c, k) ==
    [json |-> s.json, action |-> s.action, data |-> s.data, on |-> c, n |-> k]

\* line 149: json.loads(game)["action"]: the exception it raises, or "none"
ParseError(f) ==
    IF f.json = "invalid" THEN "JSONDecodeError"
    ELSE IF f.json # "object" THEN "TypeError"
    ELSE IF f.action = "absent" THEN "KeyError"
    ELSE "none"

WellFormed(f) == f.json = "object" /\ f.action # "absent"

\* the comparison made against the tag of the request instead of the reply
IsCompletion_requestTag(f) == f.action = "gameAnalysis"

\* the first frame that parses is taken for the result
IsCompletion_anyTag(f) == TRUE

\* line 149: json.loads(game)["action"] == "analyzeGame"
IsCompletion(f) == f.action = "analyzeGame"

\* ------------------------------------------------------------- calendar
\* January of the first year the clock shows
FirstMonth == [y |-> 1, m |-> 1]
NoQuery == [by |-> "none", given |-> FALSE, y |-> 0, m |-> 0, at |-> FirstMonth]
NoApplication == [op |-> "none", arg |-> 0, done |-> FALSE, out |-> 0]

\* ------------------------------------------------------------- initial state
\* two analyze_game calls are about to start, in a process that loaded the
\* module this month
\* a call that provisions a credential for a game it was handed, no lookup made
Init_noLookup ==
    /\ pc = [c \in Calls |-> "anon"]
    /\ sel = [c \in Calls |-> Listing[1]]
    /\ token = [c \in Calls |-> NoToken]
    /\ echo = [c \in Calls |-> "none"]
    /\ conn = [c \in Calls |-> "none"]
    /\ outbox = [c \in Calls |-> <<>>]
    /\ inbox = [c \in Calls |-> <<>>]
    /\ queued = [c \in Calls |-> 0]
    /\ result = [c \in Calls |-> NoFrame]
    /\ error = [c \in Calls |-> "none"]
    /\ trace = [c \in Calls |-> <<>>]
    /\ issued = {}
    /\ fn = NoApplication
    /\ now = FirstMonth
    /\ defaults = FirstMonth
    /\ query = NoQuery

Init ==
    /\ pc = [c \in Calls |-> "lookup"]
    /\ sel = [c \in Calls |-> NoGame]
    /\ token = [c \in Calls |-> NoToken]
    /\ echo = [c \in Calls |-> "none"]
    /\ conn = [c \in Calls |-> "none"]
    /\ outbox = [c \in Calls |-> <<>>]
    /\ inbox = [c \in Calls |-> <<>>]
    /\ queued = [c \in Calls |-> 0]
    /\ result = [c \in Calls |-> NoFrame]
    /\ error = [c \in Calls |-> "none"]
    /\ trace = [c \in Calls |-> <<>>]
    /\ issued = {}
    /\ fn = NoApplication
    /\ now = FirstMonth
    /\ defaults = FirstMonth
    /\ query = NoQuery

\* ------------------------------------------------------------- helpers
\* a websocket opened without `async with` and closed by nobody
AsyncWithExit_leak(st) == st

\* line 121: leaving the `async with websockets.connect(...)` block, by return or
\* by exception, runs its __aexit__, which closes the websocket
AsyncWithExit(st) == IF st = "open" THEN "closed" ELSE st

\* a failed request swallowed by an `except: pass`
AfterRequest_swallowed(ok, next) == next

\* lines 34, 43, 59, 98: a request that raises is not caught anywhere up to the
\* caller of analyze_game, so the call goes on only when the request succeeded
AfterRequest(ok, next) == IF ok THEN next ELSE "raised"

\* the send placed inside the loop
AfterSend_again == "send"

\* lines 146-148: after the one send the coroutine enters the receive loop and
\* never comes back to line 146
AfterSend == "recv"

\* the token kept in one attribute of the shared ChessAnalyzer object, which
\* every provisioning overwrites
RequestData_sharedToken(c) ==
    [ action |-> "gameAnalysis",
      pgn |-> sel[c].pgn,
      engineType |-> "stockfish16 nnue",
      gameId |-> GameId(sel[c].url),
      token |-> IF issued = {} THEN token[c] ELSE IssuedToken(Cardinality(issued)),
      strength |-> "Maximum" ]

\* lines 122-145: the request message, built from the call's own locals
RequestData(c) ==
    [ action |-> "gameAnalysis",
      pgn |-> sel[c].pgn,
      engineType |-> "stockfish16 nnue",
      gameId |-> GameId(sel[c].url),
      token |-> token[c],
      strength |-> "Maximum" ]

\* call c attempted I/O operation op, which succeeded or raised
Log(c, op, ok) == trace' = [trace EXCEPT ![c] = Append(@, [op |-> op, ok |-> ok])]

\* an exception leaves the call: any open websocket block is exited on the way
Raise(c, exc) ==
    /\ pc' = [pc EXCEPT ![c] = "raised"]
    /\ error' = [error EXCEPT ![c] = exc]
    /\ conn' = [conn EXCEPT ![c] = AsyncWithExit(@)]

\* frames the service has put on c's connection so far
Delivered(c) == Len(inbox[c]) + queued[c]

\* ------------------------------------------------------------- analyze_game
\* lines 98-103: fetch the month's games and pick player_games[game_number]
Lookup(c) ==
    /\ pc[c] = "lookup"
    /\ \E ok \in BOOLEAN, i \in IndexInputs :
        LET p == PyIndex(Len(Listing), i) IN
        /\ Log(c, "games", ok)
        /\ IF ok /\ p # 0
           THEN /\ sel' = [sel EXCEPT ![c] = Listing[p]]
                /\ pc' = [pc EXCEPT ![c] = "anon"]
                /\ UNCHANGED <<error, conn>>
           ELSE /\ Raise(c, IF ok THEN "IndexError" ELSE "ConnectionError")
                /\ UNCHANGED sel
    /\ UNCHANGED <<token, echo, outbox, inbox, queued, result, issued, aux>>

\* ------------------------------------------------------------- __generate_account
\* line 34: GET /register/user-type for an anonymous PHPSESSID
AnonSession(c) ==
    /\ pc[c] = "anon"
    /\ \E ok \in BOOLEAN :
        /\ Log(c, "anon", ok)
        /\ IF AfterRequest(ok, "register") = "raised"
           THEN Raise(c, "ConnectionError")
           ELSE /\ pc' = [pc EXCEPT ![c] = AfterRequest(ok, "register")]
                /\ UNCHANGED <<error, conn>>
    /\ UNCHANGED <<sel, token, echo, outbox, inbox, queued, result, issued, aux>>

\* lines 32-44: draw the username, POST the registration, test the echo; on a
\* mismatch __generate_account returns the error string, which line 119 binds
\* to `token`
Register(c) ==
    /\ pc[c] = "register"
    /\ \E ok \in BOOLEAN, user \in Usernames, name \in ResponseNames :
        /\ Log(c, "register", ok)
        /\ IF AfterRequest(ok, "exchange") = "raised"
           THEN /\ Raise(c, "ConnectionError")
                /\ UNCHANGED <<token, echo>>
           ELSE /\ echo' = [echo EXCEPT ![c] = EchoKind(user, name)]
                /\ IF EchoAccepted(user, name)
                   THEN /\ pc' = [pc EXCEPT ![c] = AfterRequest(ok, "exchange")]
                        /\ UNCHANGED token
                   ELSE /\ token' = [token EXCEPT ![c] = ErrorString]
                        /\ pc' = [pc EXCEPT ![c] = "connect"]
                /\ UNCHANGED <<error, conn>>
    /\ UNCHANGED <<sel, outbox, inbox, queued, result, issued, aux>>

\* lines 46, 59-60 and 119: GET the analysis token for the registered session
FetchToken(c) ==
    /\ pc[c] = "exchange"
    /\ \E ok \in BOOLEAN :
        /\ Log(c, "exchange", ok)
        /\ IF AfterRequest(ok, "connect") = "raised"
           THEN /\ Raise(c, "ConnectionError")
                /\ UNCHANGED <<token, issued>>
           ELSE LET t == IssuedToken(Cardinality(issued) + 1) IN
                /\ token' = [token EXCEPT ![c] = t]
                /\ issued' = issued \cup {[tok |-> t, to |-> c]}
                /\ pc' = [pc EXCEPT ![c] = AfterRequest(ok, "connect")]
                /\ UNCHANGED <<error, conn>>
    /\ UNCHANGED <<sel, echo, outbox, inbox, queued, result, aux>>

\* ------------------------------------------------------------- __analyze_game_async
\* line 121: open the websocket
Connect(c) ==
    /\ pc[c] = "connect"
    /\ \E ok \in BOOLEAN :
        /\ Log(c, "connect", ok)
        /\ IF ok
           THEN /\ conn' = [conn EXCEPT ![c] = "open"]
                /\ pc' = [pc EXCEPT ![c] = "send"]
                /\ UNCHANGED error
           ELSE Raise(c, "ConnectionError")
    /\ UNCHANGED <<sel, token, echo, outbox, inbox, queued, result, issued, aux>>

\* line 146: await websocket.send(json.dumps(data))
Send(c) ==
    /\ pc[c] = "send"
    /\ \E ok \in BOOLEAN :
        /\ Log(c, "send", ok)
        /\ IF ok
           THEN /\ outbox' = [outbox EXCEPT ![c] = Append(@, RequestData(c))]
                /\ pc' = [pc EXCEPT ![c] = AfterSend]
                /\ UNCHANGED <<error, conn>>
           ELSE /\ Raise(c, "ConnectionClosed")
                /\ UNCHANGED outbox
    /\ UNCHANGED <<sel, token, echo, inbox, queued, result, issued, aux>>

\* lines 147-149: one turn of the receive loop on a frame that has arrived:
\* recv() hands over the next frame, json.loads(...)["action"] is compared, and
\* the frame is returned (leaving the websocket block) or dropped
Recv(c) ==
    /\ pc[c] = "recv"
    /\ queued[c] > 0
    /\ \E s \in FrameShapes :
        LET f == MkFrame(s, c, Len(inbox[c]) + 1) IN
        /\ queued' = [queued EXCEPT ![c] = @ - 1]
        /\ inbox' = [inbox EXCEPT ![c] = Append(@, f)]
        /\ Log(c, "recv", TRUE)
        /\ IF ParseError(f) # "none"
           THEN /\ Raise(c, ParseError(f))
                /\ UNCHANGED result
           ELSE IF IsCompletion(f)
           THEN /\ result' = [result EXCEPT ![c] = f]
                /\ pc' = [pc EXCEPT ![c] = "returned"]
                /\ conn' = [conn EXCEPT ![c] = AsyncWithExit(@)]
                /\ UNCHANGED error
           ELSE UNCHANGED <<pc, result, conn, error>>
    /\ UNCHANGED <<sel, token, echo, outbox, issued, aux>>

\* line 148: recv() raises once the connection is lost and no frame is left
RecvFail(c) ==
    /\ pc[c] = "recv"
    /\ queued[c] = 0
    /\ Log(c, "recv", FALSE)
    /\ Raise(c, "ConnectionClosed")
    /\ UNCHANGED <<sel, token, echo, outbox, inbox, queued, result, issued, aux>>

\* line 105: asyncio.run(...) is interrupted while the coroutine is suspended
\* in an await (lines 121, 146, 148): CancelledError is thrown into it
Cancel(c) ==
    /\ pc[c] \in {"connect", "send", "recv"}
    /\ Raise(c, "CancelledError")
    /\ UNCHANGED <<sel, token, echo, outbox, inbox, queued, result, trace, issued, aux>>

\* lines 105, 163-187: __get_tallies on the returned frame; a payload lacking a
\* field it reads raises KeyError
Tallies(c) ==
    /\ pc[c] = "returned"
    /\ Log(c, "tallies", result[c].data = "full")
    /\ IF result[c].data = "full"
       THEN /\ pc' = [pc EXCEPT ![c] = "done"]
            /\ UNCHANGED <<error, conn>>
       ELSE Raise(c, "KeyError")
    /\ UNCHANGED <<sel, token, echo, outbox, inbox, queued, result, issued, aux>>

\* ------------------------------------------------------------- environment
\* the analysis service, once it has the request, puts one more frame on the
\* open connection
Deliver(c) ==
    /\ conn[c] = "open"
    /\ outbox[c] # <<>>
    /\ Delivered(c) < MaxFrames
    /\ queued' = [queued EXCEPT ![c] = @ + 1]
    /\ UNCHANGED <<pc, sel, token, echo, conn, outbox, inbox, result, error, trace, issued, aux>>

\* the steps call c takes by itself once what it waits for is there
SessionStep(c) ==
    \/ Recv(c)
    \/ Tallies(c)

Next ==
    \/ \E c \in Calls : Lookup(c)
    \/ \E c \in Calls : AnonSession(c)
    \/ \E c \in Calls : Register(c)
    \/ \E c \in Calls : FetchToken(c)
    \/ \E c \in Calls : Connect(c)
    \/ \E c \in Calls : Send(c)
    \/ \E c \in Calls : Recv(c)
    \/ \E c \in Calls : RecvFail(c)
    \/ \E c \in Calls : Cancel(c)
    \/ \E c \in Calls : Tallies(c)
    \/ \E c \in Calls : Deliver(c)

Spec == Init /\ [][Next]_vars

\* the event loop runs a coroutine whose awaited frame has arrived
LiveSpec == Spec /\ \A c \in Calls : WF_vars(SessionStep(c))

\* ------------------------------------------------------------- functions of the class
\* Each function is applied once to an input drawn at the start.
Players == {"ann", "bob"}

\* a game of the upstream listing, as far as the class reads it (lines 79, 99-103)
GameRecords ==
    { [pgn |-> "pgn", url |-> <<"/", "1">>, white |-> w, black |-> b] :
        w \in Players, b \in Players }

\* the month listings upstream may deliver (lines 76, 98)
UpstreamListings == UNION {[1..n -> GameRecords] : n \in 0..MaxGames}

Application(op, arg) == [op |-> op, arg |-> arg, done |-> FALSE, out |-> 0]
Applied(out) == fn' = [fn EXCEPT !.done = TRUE, !.out = out]
Pending(op) == fn.op = op /\ ~fn.done
Ran(op) == fn.op = op /\ fn.done

\* lines 99-103: player_games[game_number] and its fields, or the IndexError
\* the subscript raises
SelectGame(games, i) ==
    LET p == PyIndex(Len(games), i) IN
    IF p = 0 THEN [kind |-> "raise", exc |-> "IndexError"]
    ELSE [kind |-> "game", game |-> games[p], pos |-> p - 1]

SelectInputs ==
    { [games |-> g, i |-> i] : g \in UpstreamListings, i \in (-(MaxGames + 1))..MaxGames }

ApplySelect ==
    /\ Pending("select")
    /\ Applied(SelectGame(fn.arg.games, fn.arg.i))
    /\ UNCHANGED <<pc, sel, token, echo, conn, outbox, inbox, queued, result, error, trace,
                   issued, now, defaults, query>>

\* ---- numbers of the payload and their text
\* A JSON number is loaded as a Python int (frac = <<>>) or a float, here
\* [int, frac]: the integer part and the decimals, which end in no 0 unless
\* they are the single decimal 0.
FracDigits == {0, 4, 5, 6}
Fracs ==
    { f \in UNION {[1..n -> FracDigits] : n \in 1..MaxFrac} :
        Len(f) > 1 => f[Len(f)] # 0 }
\* the accuracy figures a payload may carry: 0 to 100
Figures ==
    { [int |-> n, frac |-> <<>>] : n \in 0..100 }
        \cup { [int |-> n, frac |-> f] : n \in 0..99, f \in Fracs }
        \cup { [int |-> 100, frac |-> <<0>>] }

DigitChars == <<"0", "1", "2", "3", "4", "5", "6", "7", "8", "9">>
DigitChar(d) == DigitChars[d + 1]

RECURSIVE IntStr(_)
\* str() of a non-negative int
IntStr(n) == IF n < 10 THEN <<DigitChar(n)>> ELSE Append(IntStr(n \div 10), DigitChar(n % 10))

\* str() of the number: the int as it is, the float with a point and its decimals
Str(v) ==
    IF v.frac = <<>> THEN IntStr(v.int)
    ELSE IntStr(v.int) \o <<".">> \o [k \in 1..Len(v.frac) |-> DigitChar(v.frac[k])]

\* Python s[:n]
Prefix(s, n) == SubSeq(s, 1, IF Len(s) < n THEN Len(s) ELSE n)

\* the slice taken one character longer
Accuracy_fiveChars(v) == Prefix(Str(v), 5)

\* lines 173-176: str(data["data"]["CAPS"][color][...])[:4]
Accuracy(v) == Prefix(Str(v), 4)

ApplyAccuracy ==
    /\ Pending("accuracy")
    /\ Applied(Accuracy(fn.arg))
    /\ UNCHANGED <<pc, sel, token, echo, conn, outbox, inbox, queued, result, error, trace,
                   issued, now, defaults, query>>

\* ---- the year and month of a listing request (lines 62, 76, 82, 98)
Months == { [y |-> y, m |-> m] : y \in 1..MaxYear, m \in 1..12 }

\* the calendar month ends
Tick ==
    /\ ~(now.y = MaxYear /\ now.m = 12)
    /\ now' = IF now.m = 12 THEN [y |-> now.y + 1, m |-> 1] ELSE [now EXCEPT !.m = @ + 1]
    /\ UNCHANGED <<pc, sel, token, echo, conn, outbox, inbox, queued, result, error, trace,
                   issued, fn, defaults, query>>

\* lines 62 and 82: the default values of year and month are evaluated once,
\* when the def statement runs at module load; a call that omits them gets
\* those values (lines 76, 98)
CallOmitted(f) ==
    /\ query' = [by |-> f, given |-> FALSE, y |-> defaults.y, m |-> defaults.m, at |-> now]
    /\ UNCHANGED <<pc, sel, token, echo, conn, outbox, inbox, queued, result, error, trace,
                   issued, fn, now, defaults>>

\* a call that passes year and month queries what it passes
CallGiven(f, month) ==
    /\ query' = [by |-> f, given |-> TRUE, y |-> month.y, m |-> month.m, at |-> now]
    /\ UNCHANGED <<pc, sel, token, echo, conn, outbox, inbox, queued, result, error, trace,
                   issued, fn, now, defaults>>

ListingCallers == {"get_game_number", "analyze_game"}

ClockNext ==
    \/ Tick
    \/ \E f \in ListingCallers : CallOmitted(f)
    \/ \E f \in ListingCallers, month \in Months : CallGiven(f, month)

\* the module is loaded in the first month: Init has defaults = now
ClockSpec == Init /\ [][ClockNext]_vars

\* ---- __get_tallies
\* line 16
TALLIES_LIST ==
    <<"brilliant", "greatFind", "best", "excellent", "good", "book", "inaccuracy",
      "mistake", "miss", "blunder">>
Labels == {TALLIES_LIST[k] : k \in 1..Len(TALLIES_LIST)}
Colors == {"white", "black"}

\* the members of the payload that lines 166 and 172-176 subscript
Reads ==
    {[sec |-> "book", color |-> "-", key |-> "name"]}
        \cup {[sec |-> "reportCard", color |-> c, key |-> "effectiveElo"] : c \in Colors}
        \cup {[sec |-> "CAPS", color |-> c, key |-> k] : c \in Colors, k \in {"all", "gp0", "gp1", "gp2"}}

\* the tally of one colour in a payload: every label, or all but one, or one
\* label more; every count 0 or every count 2
TallyShapes ==
    { [l \in ls |-> n] :
        ls \in {Labels} \cup {Labels \ {l} : l \in Labels} \cup {Labels \cup {"extra"}},
        n \in {0, 2} }

\* the payloads of a completion frame: every member there, or one missing
Payloads ==
    { [ present |-> pr, white |-> w, black |-> b,
        name |-> <<"I", "t", ",", "G">>, elo |-> 1500,
        caps |-> [int |-> 97, frac |-> <<4, 5, 6>>] ] :
        pr \in {Reads} \cup {Reads \ {r} : r \in Reads},
        w \in TallyShapes, b \in TallyShapes }

\* line 166: str(name).split(",")[0]
Opening(name) ==
    LET commas == {k \in 1..Len(name) : name[k] = ","} IN
    IF commas = {} THEN name
    ELSE SubSeq(name, 1, (CHOOSE k \in commas : \A j \in commas : k <= j) - 1)

\* lines 171-186: the entry of one colour
ColorEntry(p, usernames, c) ==
    [ username |-> usernames[c],
      effective_elo |-> p.elo,
      accuracy |-> Accuracy(p.caps),
      open_acc |-> Accuracy(p.caps),
      midd_acc |-> Accuracy(p.caps),
      end_acc |-> Accuracy(p.caps),
      move_rating |-> [l \in Labels |-> p[c][l]] ]

\* lines 163-187: a subscript of a member that is not there raises KeyError out
\* of the function; otherwise the summary is built whole
GetTallies(p, usernames) ==
    IF Reads \subseteq p.present /\ \A c \in Colors : Labels \subseteq DOMAIN p[c]
    THEN [ kind |-> "summary",
           opening |-> Opening(p.name),
           engine |-> "StockFish 16 NNUE (Maximum)",
           white |-> ColorEntry(p, usernames, "white"),
           black |-> ColorEntry(p, usernames, "black") ]
    ELSE [kind |-> "raise", exc |-> "KeyError"]

ApplyGetTallies ==
    /\ Pending("tallies")
    /\ Applied(GetTallies(fn.arg, [white |-> "ann", black |-> "bob"]))
    /\ UNCHANGED <<pc, sel, token, echo, conn, outbox, inbox, queued, result, error, trace,
                   issued, now, defaults, query>>

\* ---- the game id of a record (line 100)
\* the characters before the last "/" of a game URL: at most MaxPath letters,
\* digits and slashes
PathChars == {"/", "l", "2"}
Paths == UNION {[1..n -> PathChars] : n \in 0..MaxPath}
\* the last path segment: one or two digits
Ids == UNION {[1..n -> {"1", "7"}] : n \in 1..2}
Urls == { path \o <<"/">> \o id : path \in Paths, id \in Ids }

ApplyGameId ==
    /\ Pending("gameID")
    /\ Applied(GameId(fn.arg))
    /\ UNCHANGED <<pc, sel, token, echo, conn, outbox, inbox, queued, result, error, trace,
                   issued, now, defaults, query>>

\* ---- get_game_number
\* dict.update({k: v}): the entry of k is set, the others are kept
DictUpdate(d, k, v) == [x \in DOMAIN d \cup {k} |-> IF x = k THEN v ELSE d[x]]

\* an enumeration that counts from 1
EnumerateIdx_fromOne(pos) == pos
\* line 78: enumerate() counts from 0; pos is the 1-based position in the list
EnumerateIdx(pos) == pos - 1

\* lines 78-79: the dict after the first n games of the listing
RECURSIVE UserGames(_, _)
UserGames(player_games, n) ==
    IF n = 0 THEN [x \in {} |-> 0]
    ELSE DictUpdate(UserGames(player_games, n - 1), EnumerateIdx(n),
                    [white |-> player_games[n].white, black |-> player_games[n].black])

\* lines 75-80
GetGameNumber(player_games) == UserGames(player_games, Len(player_games))

ApplyGetGameNumber ==
    /\ Pending("get_game_number")
    /\ Applied(GetGameNumber(fn.arg))
    /\ UNCHANGED <<pc, sel, token, echo, conn, outbox, inbox, queued, result, error, trace,
                   issued, now, defaults, query>>

FnInit ==
    /\ pc = [c \in Calls |-> "lookup"]
    /\ sel = [c \in Calls |-> NoGame]
    /\ token = [c \in Calls |-> NoToken]
    /\ echo = [c \in Calls |-> "none"]
    /\ conn = [c \in Calls |-> "none"]
    /\ outbox = [c \in Calls |-> <<>>]
    /\ inbox = [c \in Calls |-> <<>>]
    /\ queued = [c \in Calls |-> 0]
    /\ result = [c \in Calls |-> NoFrame]
    /\ error = [c \in Calls |-> "none"]
    /\ trace = [c \in Calls |-> <<>>]
    /\ issued = {}
    /\ now = FirstMonth
    /\ defaults = FirstMonth
    /\ query = NoQuery
    /\ \/ \E a \in SelectInputs : fn = Application("select", a)
       \/ \E a \in Figures : fn = Application("accuracy", a)
       \/ \E a \in Payloads : fn = Application("tallies", a)
       \/ \E a \in Urls : fn = Application("gameID", a)
       \/ \E a \in UpstreamListings : fn = Application("get_game_number", a)

FnNext ==
    \/ ApplySelect
    \/ ApplyAccuracy
    \/ ApplyGetTallies
    \/ ApplyGameId
    \/ ApplyGetGameNumber

\* every function of the class applied to every input of the bounded sets
FnSpec == FnInit /\ [][FnNext]_vars

\* ------------------------------------------------------------- properties
\* __analyze_game_async is over: it returned or an exception left it
SessionOver(c) == pc[c] \in {"returned", "done", "raised"}

Tag(f) == f.action
ReadOnlyWellFormed(c) == \A i \in 1..Len(inbox[c]) : WellFormed(inbox[c][i])
CompletionsRead(c) == {i \in 1..Len(inbox[c]) : Tag(inbox[c][i]) = "analyzeGame"}
Ops(c, op) == {i \in 1..Len(trace[c]) : trace[c][i].op = op}

\* C1: when every frame handed over is well-formed, the session returns
\* nothing while no "analyzeGame" frame has been read (every other frame is
\* dropped), and once one has been read it is the last frame read (no frame is
\* read after it) and it is exactly the value returned; a returned value always
\* carries the "analyzeGame" tag.
C1_ReturnsFirstCompletion ==
    \A c \in Calls :
        /\ result[c] # NoFrame => Tag(result[c]) = "analyzeGame"
        /\ ReadOnlyWellFormed(c) =>
            /\ CompletionsRead(c) = {} => result[c] = NoFrame /\ pc[c] # "returned"
            /\ CompletionsRead(c) # {} =>
                /\ CompletionsRead(c) = {Len(inbox[c])}
                /\ result[c] = inbox[c][Len(inbox[c])]
                /\ SessionOver(c)

\* C1 witness: two progress frames were dropped, the third frame, tagged
\* "analyzeGame", was returned, and a fourth frame delivered behind it stays
\* untaken.
C1_Witness ==
    \E c \in Calls :
        /\ Len(inbox[c]) = 3
        /\ Tag(inbox[c][1]) = "progress" /\ Tag(inbox[c][2]) = "progress"
        /\ Tag(inbox[c][3]) = "analyzeGame"
        /\ result[c] = inbox[c][3]
        /\ queued[c] = 1
        /\ pc[c] = "done"

\* C2: a session that is over, however it ended, has no open connection.
C2_ClosedOnEveryExit ==
    \A c \in Calls : SessionOver(c) => conn[c] # "open"

\* C2 witness: one session was cancelled while waiting and the other failed on
\* a frame that is no JSON, both after connecting, and both connections are closed.
C2_Witness ==
    /\ pc["A"] = "raised" /\ error["A"] = "CancelledError" /\ conn["A"] = "closed"
    /\ pc["B"] = "raised" /\ error["B"] = "JSONDecodeError" /\ conn["B"] = "closed"

\* C3 (as claimed): a registration response that does not name the submitted
\* user makes provisioning raise, so that no value is bound to `token`; and a
\* value that is bound is a token the exchange endpoint issued to this call.
C3_FailsOnEchoMismatch ==
    \A c \in Calls :
        /\ echo[c] = "mismatch" => pc[c] = "raised" /\ token[c] = NoToken
        /\ token[c] # NoToken =>
            /\ token[c] # ErrorString
            /\ [tok |-> token[c], to |-> c] \in issued

\* the state a call has to itself
Local(c) ==
    << pc[c], sel[c], token[c], echo[c], conn[c], outbox[c], inbox[c], queued[c],
       result[c], error[c], trace[c] >>

RequestOwn(c) ==
    outbox[c] # <<>> =>
        LET m == outbox[c][1] IN
        /\ m.token = token[c]
        /\ m.token[1] = "token" => [tok |-> m.token, to |-> c] \in issued
        /\ m.pgn = sel[c].pgn
        /\ m.gameId = GameId(sel[c].url)

ResultOwn(c) ==
    result[c] # NoFrame =>
        /\ result[c].on = c
        /\ \E i \in 1..Len(inbox[c]) : inbox[c][i] = result[c]

\* C4: whatever the interleaving, the request of a call carries the value its
\* own provisioning produced (when that is an issued token, one issued to this
\* very call) and the moves and id of its own game, the value it returns is a
\* frame received on its own connection, and no step changes the state of
\* both calls.
C4_CallsIndependent ==
    /\ [](\A c \in Calls : RequestOwn(c) /\ ResultOwn(c))
    /\ [][\A c, d \in Calls : (c # d /\ Local(c)' # Local(c)) => Local(d)' = Local(d)]_vars

\* C4 witness: both calls ran to the end, for different games, each with its
\* own issued token, and returned a frame of their own connection.
C4_Witness ==
    /\ pc["A"] = "done" /\ pc["B"] = "done"
    /\ sel["A"] # sel["B"]
    /\ token["A"][1] = "token" /\ token["B"][1] = "token"
    /\ outbox["A"][1].token # outbox["B"][1].token
    /\ result["A"].on = "A" /\ result["B"].on = "B"

\* C5: a call attempts the send at most once, after its connect and before any
\* recv, nothing it sends exceeds that one request, and a session that got into
\* the receive loop has sent exactly one message, however many frames it read.
C5_ExactlyOneSend ==
    \A c \in Calls :
        /\ Cardinality(Ops(c, "send")) <= 1
        /\ Len(outbox[c]) <= Cardinality(Ops(c, "send"))
        /\ \A i \in Ops(c, "send") :
            /\ \E j \in Ops(c, "connect") : j < i /\ trace[c][j].ok
            /\ \A j \in Ops(c, "recv") : i < j
        /\ (Ops(c, "recv") # {} \/ pc[c] \in {"recv", "returned", "done"}) =>
            Len(outbox[c]) = 1

\* C5 witness: a session read three frames and returned, having sent one message.
C5_Witness ==
    \E c \in Calls :
        /\ pc[c] = "done"
        /\ Cardinality(Ops(c, "recv")) = 3
        /\ Len(outbox[c]) = 1

\* C6 (as claimed): a call that opens its connection holds a token issued to it
\* by the exchange endpoint, and two requests never carry the same token value.
C6_FreshCredentialPerCall ==
    /\ \A c \in Calls :
        conn[c] # "none" => [tok |-> token[c], to |-> c] \in issued
    /\ \A c, d \in Calls :
        (c # d /\ outbox[c] # <<>> /\ outbox[d] # <<>>) =>
            outbox[c][1].token # outbox[d][1].token

\* C7: a session whose request went out, that was handed only well-formed
\* frames with other tags than "analyzeGame" (none, one or many), whose
\* connection was not lost and whose caller did not cancel it, is still in the
\* receive loop, its connection open and nothing returned: no timeout ends it.
C7_WaitsForCompletion ==
    \A c \in Calls :
        ( /\ Len(outbox[c]) = 1
          /\ ReadOnlyWellFormed(c)
          /\ CompletionsRead(c) = {}
          /\ error[c] \notin {"CancelledError", "ConnectionClosed"} )
        => (pc[c] = "recv" /\ conn[c] = "open" /\ result[c] = NoFrame)

\* C7 witness: three progress frames were read, none is left, and the session waits.
C7_Witness ==
    \E c \in Calls :
        /\ pc[c] = "recv"
        /\ Len(inbox[c]) = 3
        /\ \A i \in 1..3 : Tag(inbox[c][i]) = "progress"
        /\ queued[c] = 0

\* the call produced a summary from a returned completion frame, or failed
Finished(c) ==
    \/ pc[c] = "raised"
    \/ pc[c] = "done" /\ Tag(result[c]) = "analyzeGame" /\ result[c] = inbox[c][Len(inbox[c])]

\* call c is not sitting on anything: it is over, or it has not got to the
\* receive loop, or it waits there with every delivered frame taken and no
\* completion frame among them
Settled(c) ==
    \/ Finished(c)
    \/ pc[c] \notin {"recv", "returned"}
    \/ pc[c] = "recv" /\ queued[c] = 0 /\ CompletionsRead(c) = {}

\* C8: with the event loop running a session whose frame has arrived, a call
\* never stays for ever in the receive loop with a delivered frame untaken or
\* with a completion frame taken, nor stays returned without aggregating: it
\* always gets again to having taken every delivered frame, all of them
\* progress frames, or to its end, a summary made from the returned completion
\* frame or a failure.
C8_EventuallyReturns == \A c \in Calls : []<>Settled(c)

\* C8 witness: a completion frame came after two progress frames, and the call
\* ended with a summary.
C8_Witness ==
    \E c \in Calls :
        /\ pc[c] = "done"
        /\ Len(inbox[c]) = 3
        /\ Tag(inbox[c][3]) = "analyzeGame"
        /\ trace[c][Len(trace[c])] = [op |-> "tallies", ok |-> TRUE]

\* C9 (as claimed): once a malformed frame has been read, the session is over
\* with a ProtocolError, that frame is the last one read and nothing was returned.
C9_MalformedIsProtocolError ==
    \A c \in Calls : \A i \in 1..Len(inbox[c]) :
        ~WellFormed(inbox[c][i]) =>
            /\ pc[c] = "raised" /\ error[c] = "ProtocolError"
            /\ i = Len(inbox[c])
            /\ result[c] = NoFrame

HttpOps == {"anon", "register", "exchange"}

\* C10: each of the three provisioning requests is attempted at most once per
\* call, and a request that failed is the last thing the call attempted: the
\* call is over with that failure, no connection was opened, nothing was sent.
C10_NoRetry ==
    \A c \in Calls :
        /\ \A op \in HttpOps : Cardinality(Ops(c, op)) <= 1
        /\ \A i \in 1..Len(trace[c]) :
            (trace[c][i].op \in HttpOps /\ ~trace[c][i].ok) =>
                /\ i = Len(trace[c])
                /\ pc[c] = "raised" /\ error[c] = "ConnectionError"
                /\ conn[c] = "none" /\ outbox[c] = <<>>

\* C10 witness: one call failed at the token exchange, the other at the
\* anonymous-session request, and neither opened a connection.
C10_Witness ==
    /\ pc["A"] = "raised" /\ trace["A"][Len(trace["A"])] = [op |-> "exchange", ok |-> FALSE]
    /\ pc["B"] = "raised" /\ trace["B"][Len(trace["B"])] = [op |-> "anon", ok |-> FALSE]
    /\ conn["A"] = "none" /\ conn["B"] = "none"

\* the exceptions that are Python LookupErrors
LookupErrors == {"IndexError", "KeyError"}

\* C11 (as claimed): with N games listed, every index outside 0..N-1, the
\* negative ones included, ends in a LookupError with no game selected, and a
\* game is selected only for an index in 0..N-1.
C11_OutOfRangeFails ==
    Ran("select") =>
        LET n == Len(fn.arg.games) IN
        /\ fn.arg.i \notin 0..(n - 1) =>
            fn.out.kind = "raise" /\ fn.out.exc \in LookupErrors
        /\ fn.out.kind = "game" => fn.arg.i \in 0..(n - 1)

\* the payload has every member __get_tallies reads
Complete(p) == Reads \subseteq p.present /\ \A c \in Colors : Labels \subseteq DOMAIN p[c]

\* C12 (as claimed): a summary that is returned holds, for both colours, a
\* tally whose keys are exactly the ten labels, and a payload that lacks a label
\* of either colour or another member read makes the function fail with
\* MalformedResponseError, no summary returned.
C12_AllOrNothing ==
    Ran("tallies") =>
        /\ fn.out.kind = "summary" =>
            \A c \in Colors : DOMAIN fn.out[c].move_rating = Labels
        /\ ~Complete(fn.arg) =>
            fn.out.kind = "raise" /\ fn.out.exc = "MalformedResponseError"

\* what follows the last "/" of a URL
TrailingSegment(url) ==
    LET slashes == {k \in 1..Len(url) : url[k] = "/"} IN
    IF slashes = {} THEN url
    ELSE SubSeq(url, (CHOOSE k \in slashes : \A j \in slashes : j <= k) + 1, Len(url))

\* C13 (as claimed): the game id computed from a record's URL consists only of
\* digits and is the trailing path segment of the URL, also when the URL has
\* a digit before its last path segment.
C13_IdIsTrailingSegment ==
    Ran("gameID") =>
        /\ \A k \in 1..Len(fn.out) : fn.out[k] \in Digits
        /\ fn.out = TrailingSegment(fn.arg)

\* the figure cut, not rounded, after its first decimal
TruncOneDecimal(v) ==
    IntStr(v.int) \o <<".", DigitChar(IF v.frac = <<>> THEN 0 ELSE v.frac[1])>>

C16_OmittedMeansCurrent ==
    query.by \in ListingCallers /\ ~query.given =>
        query.y = query.at.y /\ query.m = query.at.m

\* C15: for a listing of N games get_game_number returns a mapping whose keys
\* are exactly 0..N-1, and entry i holds the white and black handles of the
\* i-th game in the order upstream delivered them, each handle non-empty.
C15_OneEntryPerGameInOrder ==
    Ran("get_game_number") =>
        /\ DOMAIN fn.out = 0..(Len(fn.arg) - 1)
        /\ \A i \in 0..(Len(fn.arg) - 1) :
            /\ fn.out[i] = [white |-> fn.arg[i + 1].white, black |-> fn.arg[i + 1].black]
            /\ fn.out[i].white # "" /\ fn.out[i].black # ""

\* a listing of three games, the first two between the same players, mapped
C15_Witness ==
    /\ Ran("get_game_number")
    /\ Len(fn.arg) = 3
    /\ fn.arg[1] = fn.arg[2] /\ fn.arg[1].white = "ann" /\ fn.arg[3].white = "bob"
    /\ DOMAIN fn.out = 0..2
    /\ fn.out[0] = fn.out[1] /\ fn.out[2].white = "bob"

\* the steps of analyze_game in the order of its code (lines 98, 119, 121, 146,
\* 148, 105)
StepOrder == <<"games", "anon", "register", "exchange", "connect", "send", "recv", "tallies">>
Rank(op) == CHOOSE k \in 1..Len(StepOrder) : StepOrder[k] = op

\* C17: what a call attempts comes in the order lookup, provisioning (anonymous
\* session, registration, token exchange), connect, send, receive (repeated),
\* aggregation, starting with the lookup and going on only after a step that
\* succeeded; a call whose lookup failed, by an upstream error or by an index
\* out of range, attempted nothing else: no registration, no connection, no
\* request.
C17_StepsInOrder ==
    \A c \in Calls :
        /\ trace[c] # <<>> => trace[c][1].op = "games"
        /\ \A i, j \in 1..Len(trace[c]) :
            i < j =>
                /\ trace[c][i].ok
                /\ \/ Rank(trace[c][i].op) < Rank(trace[c][j].op)
                   \/ trace[c][i].op = "recv" /\ trace[c][j].op = "recv"
        /\ (pc[c] = "raised" /\ sel[c] = NoGame) =>
            /\ Len(trace[c]) = 1
            /\ error[c] \in {"ConnectionError", "IndexError"}
            /\ token[c] = NoToken /\ echo[c] = "none"
            /\ \A t \in issued : t.to # c
            /\ conn[c] = "none" /\ outbox[c] = <<>>

\* C17 witness: one call went through every step once, in order, and is done;
\* the other asked for an index out of range and stopped at the lookup.
C17_Witness ==
    /\ pc["A"] = "done"
    /\ [k \in 1..Len(trace["A"]) |-> trace["A"][k].op] = StepOrder
    /\ pc["B"] = "raised" /\ error["B"] = "IndexError"
    /\ trace["B"] = <<[op |-> "games", ok |-> TRUE]>>
    /\ conn["B"] = "none" /\ outbox["B"] = <<>>

\* C18 (as claimed): every request sent carries a token that the exchange
\* endpoint issued to this call after its registration was echoed, and a call
\* whose registration was not echoed opens no connection and sends nothing.
C18_RequestsCarryIssuedToken ==
    \A c \in Calls :
        /\ \A k \in 1..Len(outbox[c]) :
            /\ [tok |-> outbox[c][k].token, to |-> c] \in issued
            /\ echo[c] = "echoed"
        /\ echo[c] = "mismatch" => conn[c] = "none" /\ outbox[c] = <<>>

====
